---------------------------- MODULE Spec2Model ----------------------------
(***************************************************************************)
(* Master Meds: the App component's state (medications, injections,        *)
(* reminders, persisted profile, in-flight AI requests), the chat service  *)
(* module, the live voice session, and the pure helpers (base64 encode /   *)
(* decode, analyzePrescription).                                           *)
(*                                                                         *)
(* Specifications:                                                         *)
(*   Spec       the App component: ticks, user actions, AI completions,    *)
(*              close / mount with localStorage                            *)
(*   SpecProfile the App component's persisted profile: every operation    *)
(*              that changes a persisted value, close / mount              *)
(*   SpecProfileFair  SpecProfile with every AI request answered           *)
(*   SpecChat   services/geminiService startChat / sendChatMessage         *)
(*   SpecConsult  handleSendMessage and its replies, with the regimen      *)
(*              changing in between; SpecConsultFair with every request    *)
(*              answered                                                   *)
(*   SpecAudio  onmessage of an open live session: audio scheduling        *)
(*   SpecLive   startLiveSession / stopLiveSession and the SDK callbacks   *)
(*   SpecVoice  live sessions one after the other and the audio they play  *)
(*   SpecCodec  encode / decode on bounded byte arrays                     *)
(*   SpecBlob   createBlob on bounded sample arrays                         *)
(*   SpecStats  the XP awards, starting after a number of scans            *)
(*   SpecTake   takes and scans after a first take                         *)
(*   SpecRx     both versions of analyzePrescription on bounded responses  *)
(***************************************************************************)
EXTENDS Integers, Sequences, FiniteSets, TLC

(***************************************************************************)
(* Bounds of the model.                                                    *)
(***************************************************************************)
\* user operations explored per behaviour (take, skip, toggle, pick a file ...)
MaxOps == 2
\* days the clock runs through
MaxDays == 2
\* chat sessions created, and messages sent, per behaviour
MaxChats == 3
MaxSends == 3
\* chat messages submitted on the consultation screen per behaviour
MaxMsgs == 2
\* live voice sessions started per behaviour
MaxLive == 3
\* live sessions started one after the other while audio is followed
MaxVoice == 2
\* server messages of a live session, and seconds its output context runs
MaxMessages == 3
MaxTime == 3
\* length of a byte array handed to encode
MaxLen == 3
\* prescription scans that found nothing, made before the behaviour starts
MaxPriorScans == 5
\* samples in a Float32Array handed to createBlob
MaxSamples == 2
\* items in a prescription response handed to analyzePrescription
MaxRxItems == 2

(***************************************************************************)
(* Program constants.                                                      *)
(***************************************************************************)
DAYS_OF_WEEK == <<"Sun", "Mon", "Tue", "Wed", "Thu", "Fri", "Sat">>

AllDays == {DAYS_OF_WEEK[i] : i \in 1..7}

\* JavaScript's undefined, for a string-valued property that is absent
Undef == "undefined"

\* The minutes of a day the 60-second ticker is followed through; the app is
\* opened at 07:00.  A tick at any other minute runs the same effect with
\* another string.
ClockTimes == <<"07:00", "08:00", "09:00">>

\* getDay() index of the day the model starts on (Thu), so that the second
\* day is the Friday the default injection schedule names
StartDow == 4

Weekday(d) == DAYS_OF_WEEK[((StartDow + d) % 7) + 1]

\* what Math.floor(Math.random() * 1000000) may return: 0..999999, of which
\* the model draws two values, one equal to the id of a built-in medication
RandIds == {1, 7}

\* Date.now() at the start of the model; larger than every RandIds value
EpochMs == 1000

DefaultMeds ==
  << [id |-> 1, block |-> "am", status |-> "pending", time |-> "08:00", schedule |-> AllDays, count |-> 12],
     [id |-> 2, block |-> "am", status |-> "pending", time |-> "09:00", schedule |-> AllDays, count |-> 15],
     [id |-> 3, block |-> "pm", status |-> "pending", time |-> "20:00", schedule |-> AllDays, count |-> 5],
     [id |-> 4, block |-> "pm", status |-> "pending", time |-> "21:00", schedule |-> AllDays, count |-> 15] >>

DefaultStats == [streak |-> 12, level |-> 3, xp |-> 2450, wellness |-> 88]

DefaultPharmacy == [name |-> "", phone |-> "", email |-> ""]

\* JSON / JavaScript null
Null == [t |-> "null"]


(***************************************************************************)
(* State.                                                                  *)
(***************************************************************************)
VARIABLES
  \* ---- App component (useState / useRef) and its environment ----
  phase,              \* "running" | "closed" | "mounting" (first render's effects done)
  now,                \* [day, slot]: the Date held in `now`
  meds, injections, conditions, stats, vault, diary, symptoms, dietPlan,
  emergencyContacts, pharmacy, alarmsEnabled,
  activeAlarmItem,    \* Null or [type, data]
  remindedItems,      \* set of keys <<kind, id, "HH:MM">>
  loading,
  flights,            \* AI requests in flight, each with the values its closure captured
  storage,            \* localStorage[STORAGE_KEY]
  queued,             \* the stored item the load effect read, its setState calls not yet rendered
  clockMs,            \* Date.now()
  ops,                \* user operations so far (bounded by MaxOps)
  \* ---- history of the App component ----
  fx,                 \* what the last step's reminder effect did
  raisedRuns,         \* per key: evaluations of the reminder effect that raised it, this session
  closedWith,         \* the persisted values at the moment of the last close
  \* ---- services/geminiService ----
  activeChatSession,  \* 0 (null) or the number of the session object it refers to
  chatSessions,       \* the sessions created so far, each the messages it received
  sendLog,            \* history: one entry per sendChatMessage call
  chatHistory,        \* the App's chatHistory; n numbers the message (history)
  chatFlights,        \* the sendChatMessage calls awaiting their outcome
  \* ---- live voice session ----
  isLiveActive,
  liveSessionRef,     \* 0 (null) or the number of the session liveSessionRef.current holds
  live,               \* the sessions started so far, in order
  \* ---- playback of the audio a live session receives ----
  nextStartTimeRef,   \* the playback cursor nextStartTimeRef.current
  audioSourcesRef,    \* the numbers of the sources in audioSourcesRef.current
  outTime,            \* outputAudioCtx.currentTime of the session started last
  chunkLog,           \* history: one entry per audio chunk scheduled
  interrupts,         \* history: the interrupted messages processed so far

  \* ---- encode / decode ----
  bytesIn, b64Text, bytesOut, codecPc,
  samples,            \* the Float32Array handed to createBlob, in units of 1 / SampleDen
  \* ---- analyzePrescription (AM/PM version) ----
  rxText,             \* response.text: "" | "{}" (an object without items) | "{items}"
  rxItems, rxIds, rxOut, rxPc

appVars == <<phase, now, meds, injections, conditions, stats, vault, diary, symptoms,
             dietPlan, emergencyContacts, pharmacy, alarmsEnabled, activeAlarmItem,
             remindedItems, loading, flights, storage, queued, clockMs, ops, fx,
             raisedRuns,
             closedWith>>
chatVars == <<activeChatSession, chatSessions, sendLog, chatHistory, chatFlights>>
liveVars == <<isLiveActive, liveSessionRef, live>>
audioVars == <<nextStartTimeRef, audioSourcesRef, outTime, chunkLog, interrupts>>
codecVars == <<bytesIn, b64Text, bytesOut, codecPc, samples>>
rxVars == <<rxText, rxItems, rxIds, rxOut, rxPc>>
vars == <<appVars, chatVars, liveVars, audioVars, codecVars, rxVars>>

(***************************************************************************)
(* Small helpers.                                                          *)
(***************************************************************************)
Min(a, b) == IF a < b THEN a ELSE b

MaxOf(S) == CHOOSE x \in S : \A y \in S : y <= x

MapSeq(F(_), s) == [i \in 1..Len(s) |-> F(s[i])]

(***************************************************************************)
(* Persistence: JSON.stringify of the profile, JSON.parse and the load     *)
(* effect's per-field checks.  A JSON value carries its type tag.          *)
(***************************************************************************)
JArr(s) == [t |-> "array", v |-> s]

JObj(o) == [t |-> "object", v |-> o]

JBool(b) == [t |-> "boolean", v |-> b]

NoItem == [t |-> "none"]

\* JSON.stringify leaves out a property whose value is undefined
StringifyItem(m) ==
  IF m.time = Undef THEN [f \in (DOMAIN m) \ {"time"} |-> m[f]] ELSE m

\* reading a property the parsed object does not have gives undefined
ParseItem(j) ==
  IF "time" \in DOMAIN j THEN j
  ELSE [f \in (DOMAIN j) \cup {"time"} |-> IF f = "time" THEN Undef ELSE j[f]]

\* the values the save effect writes
Persisted ==
  [meds |-> meds, injections |-> injections, conditions |-> conditions,
   stats |-> stats, vault |-> vault, diary |-> diary, symptoms |-> symptoms,
   dietPlan |-> dietPlan, emergencyContacts |-> emergencyContacts,
   pharmacy |-> pharmacy, alarmsEnabled |-> alarmsEnabled]

\* the values a freshly constructed component holds
Defaults ==
  [meds |-> DefaultMeds, injections |-> <<>>, conditions |-> <<>>,
   stats |-> DefaultStats, vault |-> <<>>, diary |-> <<>>, symptoms |-> <<>>,
   dietPlan |-> Null, emergencyContacts |-> <<>>,
   pharmacy |-> DefaultPharmacy, alarmsEnabled |-> TRUE]

Stringify(p) ==
  [t |-> "json",
   v |-> [meds |-> JArr(MapSeq(StringifyItem, p.meds)),
          injections |-> JArr(MapSeq(StringifyItem, p.injections)),
          conditions |-> JArr(p.conditions),
          stats |-> JObj(p.stats),
          vault |-> JArr(p.vault),
          diary |-> JArr(p.diary),
          symptoms |-> JArr(p.symptoms),
          dietPlan |-> p.dietPlan,
          emergencyContacts |-> JArr(p.emergencyContacts),
          pharmacy |-> JObj(p.pharmacy),
          alarmsEnabled |-> JBool(p.alarmsEnabled)]]

\* JavaScript truthiness of a parsed JSON value
Truthy(j) ==
  CASE j.t \in {"null", "undefined"} -> FALSE
    [] j.t = "boolean" -> j.v
    [] OTHER -> TRUE

\* `if (d.x) setX(d.x)`: the stored value when truthy, else the value held
LoadField(j, held) == IF Truthy(j) THEN j.v ELSE held

\* the alarm setting loaded by the truthiness test of the other fields
LoadAlarms_Truthy(j, held) == IF Truthy(j) THEN j.v ELSE held

\* `if (d.alarmsEnabled !== undefined) setAlarmsEnabled(d.alarmsEnabled)`
LoadAlarms(j, held) == IF j.t # "undefined" THEN j.v ELSE held

\* the load effect applied to the stored item, over the held values h
LoadFrom(item, h) ==
  IF item.t = "none" THEN h
  ELSE LET d == item.v IN
       [meds |-> IF Truthy(d.meds) THEN MapSeq(ParseItem, d.meds.v) ELSE h.meds,
        injections |-> IF Truthy(d.injections) THEN MapSeq(ParseItem, d.injections.v)
                       ELSE h.injections,
        conditions |-> LoadField(d.conditions, h.conditions),
        stats |-> LoadField(d.stats, h.stats),
        vault |-> LoadField(d.vault, h.vault),
        diary |-> LoadField(d.diary, h.diary),
        symptoms |-> LoadField(d.symptoms, h.symptoms),
        dietPlan |-> IF Truthy(d.dietPlan) THEN d.dietPlan ELSE h.dietPlan,
        emergencyContacts |-> LoadField(d.emergencyContacts, h.emergencyContacts),
        pharmacy |-> LoadField(d.pharmacy, h.pharmacy),
        alarmsEnabled |-> LoadAlarms(d.alarmsEnabled, h.alarmsEnabled)]

(***************************************************************************)
(* The reminder effect (deps: now, meds, injections, alarmsEnabled).       *)
(***************************************************************************)
\* now.toLocaleTimeString('en-GB', {hour: '2-digit', minute: '2-digit'})
TimeStr(n) == ClockTimes[n.slot]

\* `${kind}-${id}-${time}`
Key(kind, id, time) == <<kind, id, time>>

\* the test of the forEach body without `!remindedItems.has(key)`
DueIdx_NoDedupe(items, kind, n, reminded) ==
  {i \in DOMAIN items :
     /\ items[i].status = "pending"
     /\ items[i].time = TimeStr(n)
     /\ Weekday(n.day) \in items[i].schedule}

\* the pending items of a list that pass the test of the forEach body
DueIdx(items, kind, n, reminded) ==
  {i \in DOMAIN items :
     /\ items[i].status = "pending"
     /\ items[i].time = TimeStr(n)
     /\ Weekday(n.day) \in items[i].schedule
     /\ Key(kind, items[i].id, TimeStr(n)) \notin reminded}

\* One evaluation of the effect.  `reminded` and `alarm` are the values of the
\* render the effect belongs to; every setActiveAlarmItem overwrites the one
\* before it, medications first, injections second.
Raise(ms, is, n, reminded, alarm, dm, di) ==
  [reminded |-> reminded \cup {Key("med", ms[i].id, TimeStr(n)) : i \in dm}
                         \cup {Key("inj", is[i].id, TimeStr(n)) : i \in di},
   alarm |-> IF di # {} THEN [type |-> "inj", data |-> is[MaxOf(di)]]
             ELSE IF dm # {} THEN [type |-> "med", data |-> ms[MaxOf(dm)]]
             ELSE alarm,
   raised |-> {<<"med", i>> : i \in dm} \cup {<<"inj", i>> : i \in di},
   keys |-> {Key("med", ms[i].id, TimeStr(n)) : i \in dm}
              \cup {Key("inj", is[i].id, TimeStr(n)) : i \in di}]

\* the effect without `if (!alarmsEnabled) return`
ReminderEffect_AlwaysOn(ms, is, n, enabled, reminded, alarm) ==
  Raise(ms, is, n, reminded, alarm,
        DueIdx(ms, "med", n, reminded), DueIdx(is, "inj", n, reminded))

\* the effect: nothing when alarms are disabled, else the two forEach loops
ReminderEffect(ms, is, n, enabled, reminded, alarm) ==
  IF ~enabled THEN [reminded |-> reminded, alarm |-> alarm, raised |-> {}, keys |-> {}]
  ELSE Raise(ms, is, n, reminded, alarm,
             DueIdx(ms, "med", n, reminded), DueIdx(is, "inj", n, reminded))

NoFx == [raised |-> {}, keys |-> {}, call |-> [fn |-> "none"]]

\* counts one more raising evaluation for every key of ks
CountRuns(runs, ks) ==
  [k \in (DOMAIN runs) \cup ks |->
     (IF k \in DOMAIN runs THEN runs[k] ELSE 0) + (IF k \in ks THEN 1 ELSE 0)]

\* startChat keeping the session it already has (activeChatSession ||= ...)
startChat_KeepFirst(active, sessions) ==
  [active |-> IF active = 0 THEN Len(sessions) + 1 ELSE active,
   sessions |-> Append(sessions, <<>>)]

\* activeChatSession = ai.chats.create(...): a new session, which becomes the
\* active one
startChat(active, sessions) ==
  [active |-> Len(sessions) + 1, sessions |-> Append(sessions, <<>>)]

\* the handler stored a new meds or conditions array, whatever its values: the
\* script scan always does, the load effect does when an item was stored
RegimenSet(call) ==
  \/ call.fn = "ScanDone"
  \/ call.fn = "MountRerender" /\ queued # NoItem

\* The render that follows a handler and the effects that follow the render:
\* the save effect when one of its eleven deps changed, the reminder effect
\* when one of its four deps changed.  rem0 and alarm0 are remindedItems and
\* activeAlarmItem as the handler left them; call names the handler (history).
Settle(call, rem0, alarm0, runs0) ==
  /\ \E r \in {IF <<now', meds', injections', alarmsEnabled'>>
                    # <<now, meds, injections, alarmsEnabled>>
                THEN ReminderEffect(meds', injections', now', alarmsEnabled', rem0, alarm0)
                ELSE [reminded |-> rem0, alarm |-> alarm0, raised |-> {}, keys |-> {}]} :
       /\ remindedItems' = r.reminded
       /\ activeAlarmItem' = r.alarm
       /\ fx' = [raised |-> r.raised, keys |-> r.keys, call |-> call]
       /\ raisedRuns' = CountRuns(runs0, r.keys)
  /\ storage' = IF Persisted' # Persisted THEN Stringify(Persisted') ELSE storage
  /\ \E c \in {IF RegimenSet(call) \/ <<meds', conditions'>> # <<meds, conditions>>
                THEN startChat(activeChatSession, chatSessions)
                ELSE [active |-> activeChatSession, sessions |-> chatSessions]} :
       /\ activeChatSession' = c.active
       /\ chatSessions' = c.sessions

\* updateXP computing the level from the xp before the award
UpdateXP_StaleLevel(s, amt) ==
  [s EXCEPT !.xp = s.xp + amt,
            !.level = (s.xp \div 1000) + 1,
            !.wellness = Min(100, s.wellness + 2)]

\* setStats of updateXP
UpdateXP(s, amt) ==
  [s EXCEPT !.xp = s.xp + amt,
            !.level = ((s.xp + amt) \div 1000) + 1,
            !.wellness = Min(100, s.wellness + 2)]

(***************************************************************************)
(* analyzePrescription as the App calls it (services/geminiService.ts).    *)
(***************************************************************************)
RxInjection(item, id) ==
  [id |-> id, status |-> "pending", time |-> item.time, schedule |-> {"Fri"}]

RxMedication(item, id) ==
  [id |-> id, block |-> "am", status |-> "pending", time |-> item.time,
   schedule |-> AllDays, count |-> 30]

\* parsed.items.forEach: item k gets the k-th random id
AnalyzePrescription(items, ids) ==
  LET M[k \in 0..Len(items)] ==
        IF k = 0 THEN <<>>
        ELSE IF items[k].type = "injection" THEN M[k - 1]
        ELSE Append(M[k - 1], RxMedication(items[k], ids[k]))
      J[k \in 0..Len(items)] ==
        IF k = 0 THEN <<>>
        ELSE IF items[k].type = "injection"
             THEN Append(J[k - 1], RxInjection(items[k], ids[k]))
        ELSE J[k - 1]
  IN [meds |-> M[Len(items)], injections |-> J[Len(items)]]

\* the items a response may hold: the time is required by the response schema,
\* which the SDK does not enforce on the reply
ScanItem == [type : {"pill", "injection"}, time : {"08:00", Undef}]

\* the responses the model draws: no item, or one item
ScanResponses == {<<>>} \cup {<<a>> : a \in ScanItem}

(***************************************************************************)
(* App handlers.                                                           *)
(***************************************************************************)
\* what no handler of the medication and profile screens touches
sessionVars == <<liveVars, audioVars, codecVars, rxVars>>
otherVars == <<sendLog, chatHistory, chatFlights, sessionVars>>

profileVars == <<conditions, vault, diary, symptoms, dietPlan, emergencyContacts, pharmacy>>

UserOp == /\ phase = "running"
          /\ ops < MaxOps
          /\ ops' = ops + 1

\* the map of handleMedAction without `m.id === id`
MedAction_All(ms, id, action) ==
  [i \in DOMAIN ms |->
     [ms[i] EXCEPT !.status = IF action = "take" THEN "taken" ELSE "skipped",
                   !.count = IF action = "take" THEN ms[i].count - 1 ELSE ms[i].count]]

\* setMeds(p => p.map(...)) of handleMedAction
MedAction(ms, id, action) ==
  [i \in DOMAIN ms |->
     IF ms[i].id = id
     THEN [ms[i] EXCEPT !.status = IF action = "take" THEN "taken" ELSE "skipped",
                        !.count = IF action = "take" THEN ms[i].count - 1 ELSE ms[i].count]
     ELSE ms[i]]

\* setInjections(p => p.map(...)) of handleInjectionAction
InjAction(is, id, action) ==
  [i \in DOMAIN is |->
     IF is[i].id = id
     THEN [is[i] EXCEPT !.status = IF action = "take" THEN "taken" ELSE "skipped"]
     ELSE is[i]]

\* `if (activeAlarmItem?.data?.id === id) setActiveAlarmItem(null)`
AlarmAfterAction(alarm, id) ==
  IF alarm # Null /\ alarm.data.id = id THEN Null ELSE alarm

handleMedAction(id, action) ==
  /\ meds' = MedAction(meds, id, action)
  /\ stats' = IF action = "take" THEN UpdateXP(stats, 50) ELSE stats
  /\ UNCHANGED <<now, injections, alarmsEnabled, profileVars, loading, flights, queued,
                 clockMs, closedWith>>
  /\ Settle([fn |-> "handleMedAction", id |-> id, action |-> action],
            remindedItems, AlarmAfterAction(activeAlarmItem, id), raisedRuns)

handleInjectionAction(id, action) ==
  /\ injections' = InjAction(injections, id, action)
  /\ stats' = IF action = "take" THEN UpdateXP(stats, 100) ELSE stats
  /\ UNCHANGED <<now, meds, alarmsEnabled, profileVars, loading, flights, queued,
                 clockMs, closedWith>>
  /\ Settle([fn |-> "handleInjectionAction", id |-> id, action |-> action],
            remindedItems, AlarmAfterAction(activeAlarmItem, id), raisedRuns)

\* the take / skip buttons of MedItem, rendered for a pending medication
MedButton ==
  /\ UserOp
  /\ \E i \in DOMAIN meds, action \in {"take", "skip"} :
       /\ meds[i].status = "pending"
       /\ handleMedAction(meds[i].id, action)
  /\ UNCHANGED <<phase, otherVars>>

\* the take / skip buttons of InjectionItem, rendered for a pending injection
InjectionButton ==
  /\ UserOp
  /\ \E i \in DOMAIN injections, action \in {"take", "skip"} :
       /\ injections[i].status = "pending"
       /\ handleInjectionAction(injections[i].id, action)
  /\ UNCHANGED <<phase, otherVars>>

\* the Acknowledge button of the alarm overlay
Acknowledge ==
  /\ UserOp
  /\ activeAlarmItem # Null
  /\ IF activeAlarmItem.type = "med"
     THEN handleMedAction(activeAlarmItem.data.id, "take")
     ELSE handleInjectionAction(activeAlarmItem.data.id, "take")
  /\ UNCHANGED <<phase, otherVars>>

\* the header's alarm button
ToggleAlarms ==
  /\ UserOp
  /\ alarmsEnabled' = ~alarmsEnabled
  /\ UNCHANGED <<now, meds, injections, stats, profileVars, loading, flights, queued,
                 clockMs, closedWith>>
  /\ Settle([fn |-> "ToggleAlarms"], remindedItems, activeAlarmItem, raisedRuns)
  /\ UNCHANGED <<phase, otherVars>>

\* setInterval(() => setNow(new Date()), 60000); while the app is closed the
\* clock only moves on
Tick ==
  /\ phase \in {"running", "closed"}
  /\ now.slot < Len(ClockTimes) \/ now.day < MaxDays - 1
  /\ now' = IF now.slot < Len(ClockTimes) THEN [now EXCEPT !.slot = now.slot + 1]
            ELSE [day |-> now.day + 1, slot |-> 1]
  /\ UNCHANGED <<meds, injections, alarmsEnabled, stats, profileVars, loading, flights,
                 queued, clockMs, closedWith, ops>>
  /\ IF phase = "running"
     THEN Settle([fn |-> "Tick"], remindedItems, activeAlarmItem, raisedRuns)
     ELSE UNCHANGED <<remindedItems, activeAlarmItem, fx, raisedRuns, storage,
                      activeChatSession, chatSessions>>
  /\ UNCHANGED <<phase, otherVars>>

\* Date.now() in a handler; handlers run at least a millisecond apart
DateNow == {clockMs + 1}

\* "Schedule In Routine": the form's name is never empty unless the user clears it
RegisterInjection ==
  /\ UserOp
  /\ \E t \in DateNow, tm \in {"09:00"}, sch \in {{"Fri"}, {"Thu", "Fri"}} :
       /\ clockMs' = t
       /\ injections' = Append(injections, [id |-> t, status |-> "pending", time |-> tm,
                                            schedule |-> sch])
  /\ stats' = UpdateXP(stats, 100)
  /\ UNCHANGED <<now, meds, alarmsEnabled, profileVars, loading, flights, queued, closedWith>>
  /\ Settle([fn |-> "RegisterInjection"], remindedItems, activeAlarmItem, raisedRuns)
  /\ UNCHANGED <<phase, otherVars>>

(***************************************************************************)
(* AI-backed operations: the file inputs' onChange and their completions.  *)
(***************************************************************************)
\* pill-identify input: onChange captures meds and vault of its render
PickPillImage ==
  /\ UserOp
  /\ loading' = TRUE
  /\ flights' = flights \cup {[kind |-> "pill", meds |-> meds, vault |-> vault]}
  /\ UNCHANGED <<now, meds, injections, alarmsEnabled, stats, profileVars, queued,
                 clockMs, closedWith>>
  /\ Settle([fn |-> "PickPillImage"], remindedItems, activeAlarmItem, raisedRuns)
  /\ UNCHANGED <<phase, otherVars>>

\* identifyPill resolved: setMeds([...meds, m]), setVault([v, ...vault]), updateXP(150)
IdentifyDone ==
  /\ phase = "running"
  /\ \E f \in flights, t \in DateNow, blk \in {"am", "pm"} :
       /\ f.kind = "pill"
       /\ flights' = flights \ {f}
       /\ clockMs' = t
       /\ meds' = Append(f.meds, [id |-> t, block |-> blk, status |-> "pending",
                                  time |-> "08:00", schedule |-> AllDays, count |-> 30])
       /\ vault' = <<[id |-> t]>> \o f.vault
  /\ stats' = UpdateXP(stats, 150)
  /\ loading' = FALSE
  /\ UNCHANGED <<now, injections, alarmsEnabled, conditions, diary, symptoms, dietPlan,
                 emergencyContacts, pharmacy, queued, closedWith, ops>>
  /\ Settle([fn |-> "IdentifyDone"], remindedItems, activeAlarmItem, raisedRuns)
  /\ UNCHANGED <<phase, otherVars>>

\* identifyPill or analyzePrescription rejected: alert, finally setLoading(false)
RequestFailed ==
  /\ phase = "running"
  /\ \E f \in flights :
       /\ f.kind \in {"pill", "scan"}
       /\ flights' = flights \ {f}
  /\ loading' = FALSE
  /\ UNCHANGED <<now, meds, injections, alarmsEnabled, stats, profileVars, queued,
                 clockMs, closedWith, ops>>
  /\ Settle([fn |-> "RequestFailed"], remindedItems, activeAlarmItem, raisedRuns)
  /\ UNCHANGED <<phase, otherVars>>

\* script-scan input: onChange captures vault of its render
PickScript ==
  /\ UserOp
  /\ loading' = TRUE
  /\ flights' = flights \cup {[kind |-> "scan", meds |-> <<>>, vault |-> vault]}
  /\ UNCHANGED <<now, meds, injections, alarmsEnabled, stats, profileVars, queued,
                 clockMs, closedWith>>
  /\ Settle([fn |-> "PickScript"], remindedItems, activeAlarmItem, raisedRuns)
  /\ UNCHANGED <<phase, otherVars>>

\* analyzePrescription resolved: setMeds(p => [...p, ...res.meds]),
\* setInjections(p => [...p, ...res.injections]), setVault([v, ...vault]), updateXP(250)
ScanDone ==
  /\ phase = "running"
  /\ \E f \in flights, t \in DateNow, items \in ScanResponses :
       \E ids \in [1..Len(items) -> RandIds] :
         \E res \in {AnalyzePrescription(items, ids)} :
         /\ f.kind = "scan"
         /\ flights' = flights \ {f}
         /\ clockMs' = t
         /\ meds' = meds \o res.meds
         /\ injections' = injections \o res.injections
         /\ vault' = <<[id |-> t]>> \o f.vault
  /\ stats' = UpdateXP(stats, 250)
  /\ loading' = FALSE
  /\ UNCHANGED <<now, alarmsEnabled, conditions, diary, symptoms, dietPlan,
                 emergencyContacts, pharmacy, queued, closedWith, ops>>
  /\ Settle([fn |-> "ScanDone"], remindedItems, activeAlarmItem, raisedRuns)
  /\ UNCHANGED <<phase, otherVars>>

(***************************************************************************)
(* Profile settings.                                                       *)
(***************************************************************************)
\* Enter in the diagnosis input: setConditions([...conditions, newConditionInput])
AddCondition ==
  /\ UserOp
  /\ \E c \in {"", "RA"} : conditions' = Append(conditions, c)
  /\ UNCHANGED <<now, meds, injections, alarmsEnabled, stats, vault, diary, symptoms,
                 dietPlan, emergencyContacts, pharmacy, loading, flights, queued,
                 clockMs, closedWith>>
  /\ Settle([fn |-> "AddCondition"], remindedItems, activeAlarmItem, raisedRuns)
  /\ UNCHANGED <<phase, otherVars>>

\* the X of a diagnosis chip: setConditions(conditions.filter(x => x !== c))
RemoveCondition ==
  /\ UserOp
  /\ \E i \in DOMAIN conditions :
       conditions' = SelectSeq(conditions, LAMBDA x : x # conditions[i])
  /\ UNCHANGED <<now, meds, injections, alarmsEnabled, stats, vault, diary, symptoms,
                 dietPlan, emergencyContacts, pharmacy, loading, flights, queued,
                 clockMs, closedWith>>
  /\ Settle([fn |-> "RemoveCondition"], remindedItems, activeAlarmItem, raisedRuns)
  /\ UNCHANGED <<phase, otherVars>>

\* "Add Emergency Contact" with name and phone filled in
AddContact ==
  /\ UserOp
  /\ \E t \in DateNow :
       /\ clockMs' = t
       /\ emergencyContacts' = Append(emergencyContacts, [id |-> ToString(t)])
  /\ UNCHANGED <<now, meds, injections, alarmsEnabled, stats, conditions, vault, diary,
                 symptoms, dietPlan, pharmacy, loading, flights, queued, closedWith>>
  /\ Settle([fn |-> "AddContact"], remindedItems, activeAlarmItem, raisedRuns)
  /\ UNCHANGED <<phase, otherVars>>

\* the bin of a contact: setEmergencyContacts(emergencyContacts.filter(x => x.id !== c.id))
RemoveContact ==
  /\ UserOp
  /\ \E i \in DOMAIN emergencyContacts :
       emergencyContacts' =
         SelectSeq(emergencyContacts, LAMBDA x : x.id # emergencyContacts[i].id)
  /\ UNCHANGED <<now, meds, injections, alarmsEnabled, stats, conditions, vault, diary,
                 symptoms, dietPlan, pharmacy, loading, flights, queued, clockMs,
                 closedWith>>
  /\ Settle([fn |-> "RemoveContact"], remindedItems, activeAlarmItem, raisedRuns)
  /\ UNCHANGED <<phase, otherVars>>

\* the pharmacy phone input's onChange
SetPharmacyPhone ==
  /\ UserOp
  /\ \E v \in {"", "555"} :
       /\ v # pharmacy.phone
       /\ pharmacy' = [pharmacy EXCEPT !.phone = v]
  /\ UNCHANGED <<now, meds, injections, alarmsEnabled, stats, conditions, vault, diary,
                 symptoms, dietPlan, emergencyContacts, loading, flights, queued,
                 clockMs, closedWith>>
  /\ Settle([fn |-> "SetPharmacyPhone"], remindedItems, activeAlarmItem, raisedRuns)
  /\ UNCHANGED <<phase, otherVars>>

\* "Calculate AI Menu"
RequestDietPlan ==
  /\ UserOp
  /\ dietPlan = Null
  /\ loading' = TRUE
  /\ flights' = flights \cup {[kind |-> "diet", meds |-> <<>>, vault |-> <<>>]}
  /\ UNCHANGED <<now, meds, injections, alarmsEnabled, stats, profileVars, queued,
                 clockMs, closedWith>>
  /\ Settle([fn |-> "RequestDietPlan"], remindedItems, activeAlarmItem, raisedRuns)
  /\ UNCHANGED <<phase, otherVars>>

\* generateDietPlan resolved: setDietPlan(p); setLoading(false)
DietPlanDone ==
  /\ phase = "running"
  /\ \E f \in flights :
       /\ f.kind = "diet"
       /\ flights' = flights \ {f}
  /\ dietPlan' = JObj("plan")
  /\ loading' = FALSE
  /\ UNCHANGED <<now, meds, injections, alarmsEnabled, stats, conditions, vault, diary,
                 symptoms, emergencyContacts, pharmacy, queued, clockMs, closedWith, ops>>
  /\ Settle([fn |-> "DietPlanDone"], remindedItems, activeAlarmItem, raisedRuns)
  /\ UNCHANGED <<phase, otherVars>>

\* generateDietPlan rejected: the onClick has no catch, nothing after the await runs
DietPlanFailed ==
  /\ phase = "running"
  /\ \E f \in flights :
       /\ f.kind = "diet"
       /\ flights' = flights \ {f}
  /\ UNCHANGED <<now, meds, injections, alarmsEnabled, stats, profileVars, loading,
                 queued, clockMs, closedWith, ops>>
  /\ Settle([fn |-> "DietPlanFailed"], remindedItems, activeAlarmItem, raisedRuns)
  /\ UNCHANGED <<phase, otherVars>>

\* "Audit Regimen": setLoading(true); await runClinicalAnalysis(...)
RequestAudit ==
  /\ UserOp
  /\ loading' = TRUE
  /\ flights' = flights \cup {[kind |-> "audit", meds |-> <<>>, vault |-> <<>>]}
  /\ UNCHANGED <<now, meds, injections, alarmsEnabled, stats, profileVars, queued,
                 clockMs, closedWith>>
  /\ Settle([fn |-> "RequestAudit"], remindedItems, activeAlarmItem, raisedRuns)
  /\ UNCHANGED <<phase, otherVars>>

\* runClinicalAnalysis resolved: the analysis is shown; setLoading(false)
AuditDone ==
  /\ phase = "running"
  /\ \E f \in flights :
       /\ f.kind = "audit"
       /\ flights' = flights \ {f}
  /\ loading' = FALSE
  /\ UNCHANGED <<now, meds, injections, alarmsEnabled, stats, profileVars, queued,
                 clockMs, closedWith, ops>>
  /\ Settle([fn |-> "AuditDone"], remindedItems, activeAlarmItem, raisedRuns)
  /\ UNCHANGED <<phase, otherVars>>

\* runClinicalAnalysis rejected: the onClick has no catch, nothing after the await runs
AuditFailed ==
  /\ phase = "running"
  /\ \E f \in flights :
       /\ f.kind = "audit"
       /\ flights' = flights \ {f}
  /\ UNCHANGED <<now, meds, injections, alarmsEnabled, stats, profileVars, loading,
                 queued, clockMs, closedWith, ops>>
  /\ Settle([fn |-> "AuditFailed"], remindedItems, activeAlarmItem, raisedRuns)
  /\ UNCHANGED <<phase, otherVars>>

\* "Recalculate AI Plan": setDietPlan(null)
ClearDietPlan ==
  /\ UserOp
  /\ dietPlan # Null
  /\ dietPlan' = Null
  /\ UNCHANGED <<now, meds, injections, alarmsEnabled, stats, conditions, vault, diary,
                 symptoms, emergencyContacts, pharmacy, loading, flights, queued,
                 clockMs, closedWith>>
  /\ Settle([fn |-> "ClearDietPlan"], remindedItems, activeAlarmItem, raisedRuns)
  /\ UNCHANGED <<phase, otherVars>>

(***************************************************************************)
(* Closing the tab, mounting the component, resetting the profile.         *)
(***************************************************************************)
NoRuns == [k \in {} |-> 0]

\* the tab is closed: the component and its in-flight requests are gone
Close ==
  /\ phase \in {"running", "mounting"}
  /\ ops < MaxOps
  /\ ops' = ops + 1
  /\ phase' = "closed"
  /\ closedWith' = Persisted
  /\ activeAlarmItem' = Null
  /\ remindedItems' = {}
  /\ loading' = FALSE
  /\ flights' = {}
  /\ queued' = NoItem
  /\ fx' = NoFx
  /\ raisedRuns' = NoRuns
  /\ UNCHANGED <<now, meds, injections, alarmsEnabled, stats, profileVars, storage, clockMs>>
  /\ activeChatSession' = 0
  /\ chatSessions' = <<>>
  /\ sendLog' = <<>>
  /\ chatHistory' = <<>>
  /\ chatFlights' = {}
  /\ UNCHANGED sessionVars

\* "Reset Profile Database": localStorage.clear(); window.location.reload()
ResetProfile ==
  /\ UserOp
  /\ phase' = "closed"
  /\ storage' = NoItem
  /\ closedWith' = NoItem
  /\ activeAlarmItem' = Null
  /\ remindedItems' = {}
  /\ loading' = FALSE
  /\ flights' = {}
  /\ queued' = NoItem
  /\ fx' = NoFx
  /\ raisedRuns' = NoRuns
  /\ UNCHANGED <<now, meds, injections, alarmsEnabled, stats, profileVars, clockMs>>
  /\ activeChatSession' = 0
  /\ chatSessions' = <<>>
  /\ sendLog' = <<>>
  /\ chatHistory' = <<>>
  /\ chatFlights' = {}
  /\ UNCHANGED sessionVars

\* First render of a new component and its effects, in source order: the load
\* effect reads the stored item and queues its setState calls, the chat effect
\* starts a session, the save effect writes the values of this render, the
\* reminder effect runs on them.
MountEffects ==
  /\ phase = "closed"
  /\ phase' = "mounting"
  /\ meds' = Defaults.meds
  /\ injections' = Defaults.injections
  /\ conditions' = Defaults.conditions
  /\ stats' = Defaults.stats
  /\ vault' = Defaults.vault
  /\ diary' = Defaults.diary
  /\ symptoms' = Defaults.symptoms
  /\ dietPlan' = Defaults.dietPlan
  /\ emergencyContacts' = Defaults.emergencyContacts
  /\ pharmacy' = Defaults.pharmacy
  /\ alarmsEnabled' = Defaults.alarmsEnabled
  /\ queued' = storage
  /\ storage' = Stringify(Persisted')
  /\ \E r \in {ReminderEffect(meds', injections', now, alarmsEnabled', {}, Null)} :
       /\ remindedItems' = r.reminded
       /\ activeAlarmItem' = r.alarm
       /\ fx' = [raised |-> r.raised, keys |-> r.keys, call |-> [fn |-> "mount"]]
       /\ raisedRuns' = CountRuns(NoRuns, r.keys)
  /\ \E c \in {startChat(activeChatSession, chatSessions)} :
       /\ activeChatSession' = c.active
       /\ chatSessions' = c.sessions
  /\ UNCHANGED <<now, loading, flights, clockMs, ops, closedWith>>
  /\ UNCHANGED otherVars

\* The render of the queued setState calls and the effects whose deps changed.
MountRerender ==
  /\ phase = "mounting"
  /\ phase' = "running"
  /\ \E p \in {LoadFrom(queued, Persisted)} :
       /\ meds' = p.meds
       /\ injections' = p.injections
       /\ conditions' = p.conditions
       /\ stats' = p.stats
       /\ vault' = p.vault
       /\ diary' = p.diary
       /\ symptoms' = p.symptoms
       /\ dietPlan' = p.dietPlan
       /\ emergencyContacts' = p.emergencyContacts
       /\ pharmacy' = p.pharmacy
       /\ alarmsEnabled' = p.alarmsEnabled
  /\ queued' = NoItem
  /\ UNCHANGED <<now, loading, flights, clockMs, ops, closedWith>>
  /\ Settle([fn |-> "MountRerender"], remindedItems, activeAlarmItem, raisedRuns)
  /\ UNCHANGED otherVars

(***************************************************************************)
(* The App specification.                                                  *)
(***************************************************************************)
InitApp ==
  /\ phase = "running"
  /\ now = [day |-> 0, slot |-> 1]
  /\ meds = Defaults.meds
  /\ injections = Defaults.injections
  /\ conditions = Defaults.conditions
  /\ stats = Defaults.stats
  /\ vault = Defaults.vault
  /\ diary = Defaults.diary
  /\ symptoms = Defaults.symptoms
  /\ dietPlan = Defaults.dietPlan
  /\ emergencyContacts = Defaults.emergencyContacts
  /\ pharmacy = Defaults.pharmacy
  /\ alarmsEnabled = Defaults.alarmsEnabled
  /\ activeAlarmItem = Null
  /\ remindedItems = {}
  /\ loading = FALSE
  /\ flights = {}
  /\ storage = Stringify(Defaults)
  /\ queued = NoItem
  /\ clockMs = EpochMs
  /\ ops = 0
  /\ fx = NoFx
  /\ raisedRuns = NoRuns
  /\ closedWith = NoItem

\* the service module as loaded, before any component has mounted
IdleChat ==
  /\ activeChatSession = 0
  /\ chatSessions = <<>>
  /\ sendLog = <<>>
  /\ chatHistory = <<>>
  /\ chatFlights = {}

\* the chat effect of the first render has started a session
MountedChat ==
  /\ activeChatSession = 1
  /\ chatSessions = << <<>> >>
  /\ sendLog = <<>>
  /\ chatHistory = <<>>
  /\ chatFlights = {}

IdleLive ==
  /\ isLiveActive = FALSE
  /\ liveSessionRef = 0
  /\ live = <<>>
  /\ nextStartTimeRef = 0
  /\ audioSourcesRef = {}
  /\ outTime = 0
  /\ chunkLog = <<>>
  /\ interrupts = 0

IdleCodec ==
  /\ bytesIn = <<>>
  /\ b64Text = <<>>
  /\ bytesOut = <<>>
  /\ codecPc = "idle"
  /\ samples = <<>>

IdleRx ==
  /\ rxText = ""
  /\ rxItems = <<>>
  /\ rxIds = <<>>
  /\ rxOut = [meds |-> <<>>, injections |-> <<>>]
  /\ rxPc = "idle"

Init == InitApp /\ MountedChat /\ IdleLive /\ IdleCodec /\ IdleRx

\* Medications, injections and reminders.  The profile settings (conditions,
\* contacts, pharmacy, diet plan) touch none of the values these actions read
\* and are followed in SpecProfile.
Next ==
  \/ Tick
  \/ MedButton
  \/ InjectionButton
  \/ Acknowledge
  \/ ToggleAlarms
  \/ RegisterInjection
  \/ PickPillImage
  \/ IdentifyDone
  \/ PickScript
  \/ ScanDone
  \/ RequestFailed
  \/ Close
  \/ ResetProfile
  \/ MountEffects
  \/ MountRerender

Spec == Init /\ [][Next]_vars

\* Every operation that changes a persisted value, closing and mounting; the
\* clock stands still (a tick changes no persisted value).
NextProfile ==
  \/ MedButton
  \/ InjectionButton
  \/ ToggleAlarms
  \/ RegisterInjection
  \/ PickPillImage
  \/ IdentifyDone
  \/ PickScript
  \/ ScanDone
  \/ RequestFailed
  \/ AddCondition
  \/ RemoveCondition
  \/ AddContact
  \/ RemoveContact
  \/ SetPharmacyPhone
  \/ RequestDietPlan
  \/ DietPlanDone
  \/ DietPlanFailed
  \/ ClearDietPlan
  \/ RequestAudit
  \/ AuditDone
  \/ AuditFailed
  \/ Close
  \/ ResetProfile
  \/ MountEffects
  \/ MountRerender

SpecProfile == Init /\ [][NextProfile]_vars

\* every request in flight is answered: it resolves or rejects
Answered ==
  \/ IdentifyDone
  \/ ScanDone
  \/ RequestFailed
  \/ DietPlanDone
  \/ DietPlanFailed
  \/ AuditDone
  \/ AuditFailed

\* SpecProfile with every request answered and every mount completed
SpecProfileFair ==
  /\ Init
  /\ [][NextProfile]_vars
  /\ WF_vars(Answered)
  /\ WF_vars(MountRerender)

(***************************************************************************)
(* Claims about the App component.                                         *)
(***************************************************************************)
\* the items of a list a tick at `n` finds pending and due
PendingDue(items, n) ==
  {i \in DOMAIN items :
     /\ items[i].status = "pending"
     /\ items[i].time = TimeStr(n)
     /\ Weekday(n.day) \in items[i].schedule}

\* C1: with alarms enabled, every tick that observes the minute of a pending
\* item scheduled for the current weekday raises a reminder for that item (a
\* voice alert is requested for it and the active alarm is one of the items
\* raised), on every day the item is due and still pending.
C1_ReminderOnEveryDueDay ==
  [][(phase = "running" /\ phase' = "running" /\ now' # now /\ alarmsEnabled')
       => /\ \A i \in PendingDue(meds', now') : <<"med", i>> \in fx'.raised
          /\ \A i \in PendingDue(injections', now') : <<"inj", i>> \in fx'.raised
          /\ (PendingDue(meds', now') \cup PendingDue(injections', now') # {}
                => activeAlarmItem' # Null)]_vars

\* C2: within one session every key kind-id-HH:MM is raised by at most one
\* evaluation of the reminder effect, and a raised key is in the dedupe set
\* from then on.
C2_AtMostOncePerKey ==
  \A k \in DOMAIN raisedRuns : raisedRuns[k] = 1 /\ k \in remindedItems

\* a second day's tick found a pending, due item whose key was raised the day
\* before, and raised nothing
C2_Witness ==
  /\ phase = "running"
  /\ alarmsEnabled
  /\ now.day >= 1
  /\ fx.call.fn = "Tick"
  /\ fx.keys = {}
  /\ \E i \in PendingDue(meds, now) :
       /\ Key("med", meds[i].id, TimeStr(now)) \in DOMAIN raisedRuns
       /\ Key("med", meds[i].id, TimeStr(now)) \in remindedItems

\* C3: mounting the app again after a close yields the eleven persisted values
\* as they were at the moment of closing.
C3_PersistenceRoundTrip ==
  [][(phase = "mounting" /\ phase' = "running" /\ closedWith # NoItem)
       => Persisted' = closedWith]_vars

\* the app was closed with alarms switched off, mounted again, and holds the
\* values it was closed with
C3_Witness ==
  /\ phase = "running"
  /\ fx.call.fn = "MountRerender"
  /\ closedWith # NoItem
  /\ Persisted = closedWith
  /\ ~alarmsEnabled

C8_StatusNeverReverts ==
  [][(phase = "running" /\ phase' = "running")
       => /\ \A i \in (DOMAIN meds) \cap (DOMAIN meds') :
               meds'[i].id = meds[i].id
                 => /\ meds[i].status # "pending" => meds'[i].status # "pending"
                    /\ meds'[i].count <= meds[i].count
          /\ \A i \in (DOMAIN injections) \cap (DOMAIN injections') :
               injections'[i].id = injections[i].id
                 => (injections[i].status # "pending"
                       => injections'[i].status # "pending")]_vars

\* the handler call is the user's action on the item the alarm refers to
AckOf(alarm, call) ==
  /\ call.fn = (IF alarm.type = "med" THEN "handleMedAction" ELSE "handleInjectionAction")
  /\ call.id = alarm.data.id

\* the alarm entry of a raised item, <<kind, index>>
AlarmOf(r, ms, is) ==
  IF r[1] = "med" THEN [type |-> "med", data |-> ms[r[2]]]
  ELSE [type |-> "inj", data |-> is[r[2]]]

\* C13: while the app runs, an active alarm is replaced or cleared only by the
\* user's action on the item it refers to, and every item a reminder is raised
\* for is the active alarm after the evaluation that raised it.
C13_AlarmStaysUntilAcknowledged ==
  [][(phase = "running" /\ phase' = "running") =>
       /\ (activeAlarmItem # Null /\ activeAlarmItem' # activeAlarmItem)
             => AckOf(activeAlarmItem, fx'.call)
       /\ \A r \in fx'.raised : activeAlarmItem' = AlarmOf(r, meds', injections')]_vars

\* the item is one a reminder may be raised for at time n
MayRemind(item, n, enabled) ==
  /\ enabled
  /\ item.status = "pending"
  /\ Weekday(n.day) \in item.schedule
  /\ item.time = TimeStr(n)

\* the items of a kind
ItemsOf(kind, ms, is) == IF kind = "med" THEN ms ELSE is

CallKind(call) == IF call.fn = "handleMedAction" THEN "med" ELSE "inj"

\* C15: a take of the item the active alarm refers to marks that one item
\* 'taken' (a medication's count drops by 1), changes no other item, and
\* leaves no alarm for it; a take or skip of an item of the other kind leaves
\* an alarm active.
C15_AcknowledgeExactlyTheItem ==
  [][(/\ phase = "running"
      /\ activeAlarmItem # Null
      /\ fx'.call.fn \in {"handleMedAction", "handleInjectionAction"}) =>
       /\ CallKind(fx'.call) # activeAlarmItem.type => activeAlarmItem' # Null
       /\ (AckOf(activeAlarmItem, fx'.call) /\ fx'.call.action = "take") =>
            /\ activeAlarmItem' # activeAlarmItem
            /\ Cardinality({i \in DOMAIN meds : meds'[i] # meds[i]})
                 + Cardinality({i \in DOMAIN injections : injections'[i] # injections[i]}) = 1
            /\ \A i \in DOMAIN meds :
                 meds'[i] # meds[i] =>
                   /\ activeAlarmItem.type = "med"
                   /\ meds[i].id = activeAlarmItem.data.id
                   /\ meds'[i] = [meds[i] EXCEPT !.status = "taken", !.count = @ - 1]
            /\ \A i \in DOMAIN injections :
                 injections'[i] # injections[i] =>
                   /\ activeAlarmItem.type = "inj"
                   /\ injections[i].id = activeAlarmItem.data.id
                   /\ injections'[i] = [injections[i] EXCEPT !.status = "taken"]]_vars

\* C12: whenever the loading flag is true it is false again later.
C12_LoadingReturns == loading ~> ~loading

(***************************************************************************)
(* services/geminiService: startChat / sendChatMessage.                    *)
(***************************************************************************)
\* throws when activeChatSession is null, else activeChatSession.sendMessage
sendChatMessage(active, sessions, msg) ==
  IF active = 0
  THEN [threw |-> TRUE, to |-> 0, sessions |-> sessions]
  ELSE [threw |-> FALSE, to |-> active,
        sessions |-> [sessions EXCEPT ![active] = Append(@, msg)]]

\* a call of startChat: the App's effect on [meds, conditions], at mount and
\* after every change of either
StartChat ==
  /\ Len(chatSessions) < MaxChats
  /\ \E r \in {startChat(activeChatSession, chatSessions)} :
       /\ activeChatSession' = r.active
       /\ chatSessions' = r.sessions
  /\ UNCHANGED <<sendLog, chatHistory, chatFlights, appVars, sessionVars>>

\* a call of sendChatMessage
SendChatMessage ==
  /\ Len(sendLog) < MaxSends
  /\ \E msg \in {"a", "b"} :
       \E r \in {sendChatMessage(activeChatSession, chatSessions, msg)} :
         /\ chatSessions' = r.sessions
         /\ sendLog' = Append(sendLog, [msg |-> msg, threw |-> r.threw, to |-> r.to,
                                        created |-> Len(chatSessions)])
  /\ UNCHANGED <<activeChatSession, chatHistory, chatFlights, appVars, sessionVars>>

NextChat == StartChat \/ SendChatMessage

InitService == InitApp /\ IdleChat /\ IdleLive /\ IdleCodec /\ IdleRx

SpecChat == InitService /\ [][NextChat]_vars

\* the messages sent so far that did not throw
SentMessages == SelectSeq(sendLog, LAMBDA e : ~e.threw)

RECURSIVE TotalLen(_)
TotalLen(ss) == IF ss = <<>> THEN 0 ELSE Len(Head(ss)) + TotalLen(Tail(ss))

\* C5: sendChatMessage throws, and no session receives anything, exactly when
\* startChat has created no session; otherwise the message goes to the session
\* created last.
C5_SendNeedsSession ==
  /\ \A i \in DOMAIN sendLog :
       /\ sendLog[i].threw <=> sendLog[i].created = 0
       /\ ~sendLog[i].threw => sendLog[i].to = sendLog[i].created
  /\ TotalLen(chatSessions) = Len(SentMessages)
  /\ \A n \in DOMAIN chatSessions :
       chatSessions[n] =
         MapSeq(LAMBDA e : e.msg, SelectSeq(sendLog, LAMBDA e : ~e.threw /\ e.to = n))

\* a message was refused before any session existed, and a later one went to
\* the second of two sessions
C5_Witness ==
  /\ Len(sendLog) >= 2
  /\ sendLog[1].threw
  /\ \E i \in DOMAIN sendLog : ~sendLog[i].threw /\ sendLog[i].to = 2
  /\ Len(chatSessions) >= 2
  /\ chatSessions[1] = <<>>

(***************************************************************************)
(* The live voice session.                                                 *)
(***************************************************************************)
\* a session's connection and microphone are both in use
LiveOpen(s) == s.conn \in {"connecting", "open"} /\ s.mic = "live"

\* startLiveSession up to `await navigator.mediaDevices.getUserMedia`; the new
\* output context's clock starts at 0
StartLiveSession ==
  /\ Len(live) < MaxLive
  /\ ~isLiveActive
  /\ isLiveActive' = TRUE
  /\ loading' = TRUE
  /\ live' = Append(live, [conn |-> "none", mic |-> "asked", ctx |-> "open",
                           stopped |-> FALSE])
  /\ outTime' = 0
  /\ UNCHANGED liveSessionRef

\* getUserMedia resolved: ai.live.connect is called and liveSessionRef.current set
MediaGranted ==
  \E n \in DOMAIN live :
    /\ live[n].mic = "asked"
    /\ live' = [live EXCEPT ![n].mic = "live", ![n].conn = "connecting"]
    /\ liveSessionRef' = n
    /\ UNCHANGED <<isLiveActive, loading, outTime>>

\* getUserMedia rejected: catch { setIsLiveActive(false); setLoading(false) }
MediaDenied ==
  \E n \in DOMAIN live :
    /\ live[n].mic = "asked"
    /\ live' = [live EXCEPT ![n].mic = "denied"]
    /\ isLiveActive' = FALSE
    /\ loading' = FALSE
    /\ UNCHANGED <<liveSessionRef, outTime>>

\* callbacks.onopen
OnOpen ==
  \E n \in DOMAIN live :
    /\ live[n].conn = "connecting"
    /\ live' = [live EXCEPT ![n].conn = "open"]
    /\ loading' = FALSE
    /\ UNCHANGED <<isLiveActive, liveSessionRef, outTime>>

\* callbacks.onerror: the connection is lost
OnError ==
  \E n \in DOMAIN live :
    /\ live[n].conn \in {"connecting", "open"}
    /\ live' = [live EXCEPT ![n].conn = "errored"]
    /\ isLiveActive' = FALSE
    /\ UNCHANGED <<loading, liveSessionRef, outTime>>

\* callbacks.onclose: after an error, after s.close(), or closed by the server
OnClose ==
  \E n \in DOMAIN live :
    /\ live[n].conn \in {"connecting", "open", "errored"}
    /\ live' = [live EXCEPT ![n].conn = "closed"]
    /\ isLiveActive' = FALSE
    /\ UNCHANGED <<loading, liveSessionRef, outTime>>

\* stopLiveSession, from the buttons of the overlay shown while isLiveActive;
\* the user stops the session started last (history: stopped)
StopLiveSession ==
  /\ isLiveActive
  /\ live' = [n \in DOMAIN live |->
                [live[n] EXCEPT
                   !.mic = IF n = liveSessionRef THEN "stopped" ELSE @,
                   !.ctx = IF n = liveSessionRef THEN "closed" ELSE @,
                   !.stopped = IF n = Len(live) THEN TRUE ELSE @]]
  /\ isLiveActive' = FALSE
  /\ UNCHANGED <<loading, liveSessionRef, outTime>>

liveRest == <<phase, now, meds, injections, conditions, stats, vault, diary, symptoms,
              dietPlan, emergencyContacts, pharmacy, alarmsEnabled, activeAlarmItem,
              remindedItems, flights, storage, queued, clockMs, ops, fx, raisedRuns,
              closedWith, chatVars, nextStartTimeRef, audioSourcesRef, chunkLog,
              interrupts, codecVars, rxVars>>

NextLive ==
  /\ \/ StartLiveSession
     \/ MediaGranted
     \/ MediaDenied
     \/ OnOpen
     \/ OnError
     \/ OnClose
     \/ StopLiveSession
  /\ UNCHANGED liveRest

SpecLive == Init /\ [][NextLive]_vars

\* the session started last has been stopped by the user, closed, errored or
\* never got its microphone
LastEnded ==
  \/ live[Len(live)].stopped
  \/ live[Len(live)].conn \in {"closed", "errored"}
  \/ live[Len(live)].mic = "denied"

\* C11: whenever isLiveActive is false, no session started so far holds a live
\* microphone track or an open audio context.
C11_ReleasedWhenInactive ==
  ~isLiveActive =>
    \A n \in DOMAIN live : live[n].mic # "live" /\ live[n].ctx = "closed"

\* C9: isLiveActive is true exactly when the live session started last has not
\* been stopped, closed or errored.
C9_ActiveIffLastSessionLive ==
  IF live = <<>> THEN ~isLiveActive ELSE (isLiveActive <=> ~LastEnded)

\* C10: at most one live session has its connection and microphone in use.
C10_AtMostOneLiveSession ==
  Cardinality({n \in DOMAIN live : LiveOpen(live[n])}) <= 1

(***************************************************************************)
(* encode / decode: bytes <-> base64 text.  A binary string is the         *)
(* sequence of its UTF-16 code units, base64 text the sequence of its      *)
(* characters.                                                             *)
(***************************************************************************)
B64Alphabet ==
  << "A", "B", "C", "D", "E", "F", "G", "H", "I", "J", "K", "L", "M",
     "N", "O", "P", "Q", "R", "S", "T", "U", "V", "W", "X", "Y", "Z",
     "a", "b", "c", "d", "e", "f", "g", "h", "i", "j", "k", "l", "m",
     "n", "o", "p", "q", "r", "s", "t", "u", "v", "w", "x", "y", "z",
     "0", "1", "2", "3", "4", "5", "6", "7", "8", "9", "+", "/" >>

B64Char(v) == B64Alphabet[v + 1]
B64Val(c) == (CHOOSE i \in DOMAIN B64Alphabet : B64Alphabet[i] = c) - 1

\* the byte values the inputs are drawn from: both ends of the range, the
\* sextet and sign boundaries
ByteVals == {0, 1, 63, 64, 127, 128, 254, 255}

\* String.fromCharCode(n): one UTF-16 code unit
FromCharCode(n) == n % 65536

\* storing n into a Uint8Array element
ToUint8(n) == n % 256

RECURSIVE btoa(_)
btoa(bin) ==
  IF Len(bin) = 0 THEN <<>>
  ELSE IF Len(bin) = 1
  THEN << B64Char(bin[1] \div 4), B64Char((bin[1] % 4) * 16), "=", "=" >>
  ELSE IF Len(bin) = 2
  THEN << B64Char(bin[1] \div 4), B64Char((bin[1] % 4) * 16 + bin[2] \div 16),
          B64Char((bin[2] % 16) * 4), "=" >>
  ELSE << B64Char(bin[1] \div 4), B64Char((bin[1] % 4) * 16 + bin[2] \div 16),
          B64Char((bin[2] % 16) * 4 + bin[3] \div 64), B64Char(bin[3] % 64) >>
       \o btoa(SubSeq(bin, 4, Len(bin)))

RECURSIVE atob(_)
atob(txt) ==
  IF Len(txt) < 4 THEN <<>>
  ELSE LET b1 == B64Val(txt[1]) * 4 + B64Val(txt[2]) \div 16
           b2 == (B64Val(txt[2]) % 16) * 16 + B64Val(txt[3]) \div 4
           b3 == (B64Val(txt[3]) % 4) * 64 + B64Val(txt[4])
       IN  IF txt[3] = "=" THEN <<b1>>
           ELSE IF txt[4] = "=" THEN <<b1, b2>>
           ELSE <<b1, b2, b3>> \o atob(SubSeq(txt, 5, Len(txt)))

\* the loop of encode stopping one byte short
encode_ShortLoop(bytes) ==
  btoa([i \in 1..(IF Len(bytes) = 0 THEN 0 ELSE Len(bytes) - 1) |-> FromCharCode(bytes[i])])

encode(bytes) == btoa([i \in 1..Len(bytes) |-> FromCharCode(bytes[i])])

decode(base64) ==
  LET binaryString == atob(base64)
  IN  [i \in 1..Len(binaryString) |-> ToUint8(binaryString[i])]

ByteArrays == UNION {[1..n -> ByteVals] : n \in 0..MaxLen}

InitCodec ==
  /\ bytesIn \in ByteArrays
  /\ b64Text = <<>>
  /\ bytesOut = <<>>
  /\ codecPc = "start"
  /\ samples = <<>>

Encode ==
  /\ codecPc = "start"
  /\ b64Text' = encode(bytesIn)
  /\ codecPc' = "encoded"
  /\ UNCHANGED <<bytesIn, bytesOut, samples>>

Decode ==
  /\ codecPc = "encoded"
  /\ bytesOut' = decode(b64Text)
  /\ codecPc' = "decoded"
  /\ UNCHANGED <<bytesIn, b64Text, samples>>

NextCodec ==
  /\ \/ Encode
     \/ Decode
  /\ UNCHANGED <<appVars, chatVars, liveVars, audioVars, rxVars>>

InitCodecAll == InitApp /\ IdleChat /\ IdleLive /\ InitCodec /\ IdleRx

SpecCodec == InitCodecAll /\ [][NextCodec]_vars

\* C7: decoding the encoding of a byte array gives the same bytes in the same
\* order.
C7_DecodeEncode == codecPc = "decoded" => bytesOut = bytesIn

\* an array whose length is not a multiple of three, with bytes above 127,
\* has been through encode and decode
C7_Witness ==
  /\ codecPc = "decoded"
  /\ Len(bytesIn) = 2
  /\ bytesIn[1] = 255
  /\ bytesIn[2] = 128
  /\ b64Text = <<"/", "4", "A", "=">>

(***************************************************************************)
(* createBlob: Float32Array -> base64 of 16-bit PCM.  A sample is the      *)
(* numerator of a fraction over SampleDen, a power of two, so that the     *)
(* sample and its product with 32768 are exact in floating point.          *)
(***************************************************************************)
SampleDen == 65536

\* the samples the inputs are drawn from: both ends of [-1.0, 1.0], their
\* neighbours, the middle and the values around 0
SampleVals == {-65536, -65535, -32768, -3, -2, -1, 0, 1, 2, 3, 32768, 65534, 65535, 65536}

\* data[i] * 32768 with its fraction dropped (ToIntegerOrInfinity truncates
\* towards zero); (k / SampleDen) * 32768 = k / (SampleDen / 32768)
Scaled(k) ==
  IF k >= 0 THEN k \div (SampleDen \div 32768) ELSE -((-k) \div (SampleDen \div 32768))

\* storing n into an Int16Array element: n modulo 2^16, as a signed value
ToInt16(n) == LET m == n % 65536 IN IF m >= 32768 THEN m - 65536 ELSE m

\* new Uint8Array(int16.buffer): the two bytes of every element, low byte first
Int16Bytes(int16) ==
  [i \in 1..(2 * Len(int16)) |->
     LET u == int16[(i + 1) \div 2] % 65536
     IN  IF i % 2 = 1 THEN u % 256 ELSE u \div 256]

\* the loop of createBlob
ToPcm(data) == [i \in 1..Len(data) |-> ToInt16(Scaled(data[i]))]

\* the data property of the blob createBlob returns
createBlob(data) == encode(Int16Bytes(ToPcm(data)))

\* the 16-bit value at place i of a byte array, low byte first
Int16At(bytes, i) ==
  LET u == bytes[2 * i - 1] + 256 * bytes[2 * i]
  IN  IF u >= 32768 THEN u - 65536 ELSE u

SampleArrays == UNION {[1..n -> SampleVals] : n \in 0..MaxSamples}

InitBlob ==
  /\ samples \in SampleArrays
  /\ bytesIn = <<>>
  /\ b64Text = <<>>
  /\ bytesOut = <<>>
  /\ codecPc = "pcm"

\* createBlob(inputData), and the receiver's decode of blob.data
CreateBlob ==
  /\ codecPc = "pcm"
  /\ b64Text' = createBlob(samples)
  /\ bytesOut' = decode(b64Text')
  /\ codecPc' = "blob"
  /\ UNCHANGED <<bytesIn, samples>>

NextBlob == CreateBlob /\ UNCHANGED <<appVars, chatVars, liveVars, audioVars, rxVars>>

InitBlobAll == InitApp /\ IdleChat /\ IdleLive /\ InitBlob /\ IdleRx

SpecBlob == InitBlobAll /\ [][NextBlob]_vars

\* C22: the blob holds two bytes per sample; the 16-bit value of a sample is
\* in [-32768, 32767], is not negative for a positive sample and not positive
\* for a negative one, and is not smaller than that of a smaller sample.
C22_PcmConversion ==
  codecPc = "blob" =>
    /\ Len(bytesOut) = 2 * Len(samples)
    /\ \A i \in DOMAIN samples :
         /\ Int16At(bytesOut, i) \in -32768..32767
         /\ samples[i] > 0 => Int16At(bytesOut, i) >= 0
         /\ samples[i] < 0 => Int16At(bytesOut, i) <= 0
         /\ \A j \in DOMAIN samples :
              samples[i] <= samples[j] => Int16At(bytesOut, i) <= Int16At(bytesOut, j)

(***************************************************************************)
(* analyzePrescription with AM and PM schedules.                           *)
(***************************************************************************)
\* the commonDays of analyzePrescription
CommonDays == DAYS_OF_WEEK

\* item.time || (item.block === 'am' ? '08:00' : '20:00')
RxDefaultTime(item) ==
  IF item.time # Undef /\ item.time # "" THEN item.time
  ELSE IF item.block = "am" THEN "08:00" ELSE "20:00"

\* (item.schedule && item.schedule.length > 0) ? item.schedule : commonDays
RxFinalSchedule(item) ==
  IF item.schedule # Undef /\ Len(item.schedule) > 0 THEN item.schedule ELSE CommonDays

RxInjectionAmPm(item, id) ==
  [id |-> id, status |-> "pending", time |-> RxDefaultTime(item),
   schedule |-> RxFinalSchedule(item)]

RxMedicationAmPm(item, id) ==
  [id |-> id, block |-> IF item.block \notin {Undef, ""} THEN item.block ELSE "am",
   status |-> "pending", time |-> RxDefaultTime(item),
   schedule |-> RxFinalSchedule(item), count |-> 30]

\* the forEach body with a test for 'pill' in its else branch
AnalyzePrescriptionAmPm_PillsOnly(items, ids) ==
  LET M[k \in 0..Len(items)] ==
        IF k = 0 THEN <<>>
        ELSE IF items[k].type # "pill" THEN M[k - 1]
        ELSE Append(M[k - 1], RxMedicationAmPm(items[k], ids[k]))
      J[k \in 0..Len(items)] ==
        IF k = 0 THEN <<>>
        ELSE IF items[k].type = "injection"
             THEN Append(J[k - 1], RxInjectionAmPm(items[k], ids[k]))
             ELSE J[k - 1]
  IN  [meds |-> M[Len(items)], injections |-> J[Len(items)]]

\* parsed.items.forEach: item k gets the k-th random id
AnalyzePrescriptionAmPm(items, ids) ==
  LET M[k \in 0..Len(items)] ==
        IF k = 0 THEN <<>>
        ELSE IF items[k].type = "injection" THEN M[k - 1]
        ELSE Append(M[k - 1], RxMedicationAmPm(items[k], ids[k]))
      J[k \in 0..Len(items)] ==
        IF k = 0 THEN <<>>
        ELSE IF items[k].type = "injection"
             THEN Append(J[k - 1], RxInjectionAmPm(items[k], ids[k]))
             ELSE J[k - 1]
  IN  [meds |-> M[Len(items)], injections |-> J[Len(items)]]

\* the items a response may hold; the enum of the response schema is not
\* enforced on the reply, so a type may be any string
RxItem == [type : {"pill", "injection", "cream"}, time : {Undef, "07:30"},
           block : {Undef, "am", "pm"}, schedule : {Undef, <<>>, <<"Mon">>}]

\* what response.text may be: empty, an object without an items property
\* (the response schema requires none), an object with items
RxTexts == {"", "{}", "{items}"}

InitRx ==
  /\ rxText \in RxTexts
  /\ rxItems \in UNION {[1..n -> RxItem] : n \in 0..MaxRxItems}
  /\ rxText # "{items}" => rxItems = <<>>
  /\ rxIds \in [1..Len(rxItems) -> RandIds]
  /\ rxOut = [meds |-> <<>>, injections |-> <<>>]
  /\ rxPc = "start"

\* JSON.parse(response.text || '{"items":[]}').items is undefined: the text
\* is not empty and its object has no such property
ItemsUndefined(text) == text = "{}"

\* parsed.items.forEach(...) throws a TypeError when parsed.items is undefined
Analyze ==
  /\ rxPc = "start"
  /\ IF ItemsUndefined(rxText)
     THEN rxPc' = "threw" /\ UNCHANGED rxOut
     ELSE /\ rxOut' = AnalyzePrescriptionAmPm(rxItems, rxIds)
          /\ rxPc' = "done"
  /\ UNCHANGED <<rxText, rxItems, rxIds, appVars, chatVars, liveVars, audioVars, codecVars>>

\* the analyzePrescription of services/geminiService on the same response
AnalyzeService ==
  /\ rxPc = "start"
  /\ IF ItemsUndefined(rxText)
     THEN rxPc' = "threwService" /\ UNCHANGED rxOut
     ELSE /\ rxOut' = AnalyzePrescription(rxItems, rxIds)
          /\ rxPc' = "doneService"
  /\ UNCHANGED <<rxText, rxItems, rxIds, appVars, chatVars, liveVars, audioVars, codecVars>>

NextRx == Analyze \/ AnalyzeService

InitRxAll == InitApp /\ IdleChat /\ IdleLive /\ IdleCodec /\ InitRx

SpecRx == InitRxAll /\ [][NextRx]_vars

\* the places in rxItems of the items that became medications
MedSrc == SelectSeq([i \in 1..Len(rxItems) |-> i], LAMBDA i : rxItems[i].type # "injection")

\* C6: a medication whose item carried no time gets 08:00 when its record is
\* in the am block and 20:00 when it is in the pm block.
C6_DefaultTimeAgreesWithBlock ==
  rxPc = "done" =>
    \A j \in DOMAIN rxOut.meds :
      rxItems[MedSrc[j]].time = Undef =>
        /\ rxOut.meds[j].block = "am" => rxOut.meds[j].time = "08:00"
        /\ rxOut.meds[j].block = "pm" => rxOut.meds[j].time = "20:00"

\* the places in rxItems of the items that became injections
InjSrc == SelectSeq([i \in 1..Len(rxItems) |-> i], LAMBDA i : rxItems[i].type = "injection")

\* C23: every item of the response yields one record: an Injection when its
\* type is 'injection', a Medication otherwise; the records of each list
\* follow the order of their items, every record is 'pending', and the two
\* lists together hold as many records as the response has items.
C23_EveryItemRouted ==
  rxPc \in {"done", "doneService"} =>
    /\ Len(rxOut.meds) = Len(MedSrc)
    /\ Len(rxOut.injections) = Len(InjSrc)
    /\ Len(rxOut.meds) + Len(rxOut.injections) = Len(rxItems)
    /\ \A j \in DOMAIN rxOut.meds :
         /\ rxOut.meds[j].status = "pending"
         /\ rxOut.meds[j].id = rxIds[MedSrc[j]]
         /\ "count" \in DOMAIN rxOut.meds[j]
         /\ rxItems[MedSrc[j]].time # Undef => rxOut.meds[j].time = rxItems[MedSrc[j]].time
    /\ \A j \in DOMAIN rxOut.injections :
         /\ rxOut.injections[j].status = "pending"
         /\ rxOut.injections[j].id = rxIds[InjSrc[j]]
         /\ "count" \notin DOMAIN rxOut.injections[j]
         /\ rxItems[InjSrc[j]].time # Undef
              => rxOut.injections[j].time = rxItems[InjSrc[j]].time

\* a response of an injection followed by an item of a type outside the enum
\* has been analysed into one injection and one medication
C23_Witness ==
  /\ rxPc = "done"
  /\ Len(rxItems) = 2
  /\ rxItems[1].type = "injection"
  /\ rxItems[2].type = "cream"
  /\ rxIds[1] # rxIds[2]
  /\ Len(rxOut.injections) = 1
  /\ Len(rxOut.meds) = 1
  /\ rxOut.meds[1].id = rxIds[2]

\* C24: analyzePrescription returns its pair of lists, without an error, for
\* an empty response text and for every object response, with or without an
\* items property.
C24_ReturnsForEveryResponse ==
  rxPc \notin {"idle", "start"} => rxPc \in {"done", "doneService"}

(***************************************************************************)
(* The consultation screen: handleSendMessage and its awaited reply.  Chat *)
(* input is a sequence of characters.                                      *)
(***************************************************************************)
Unavailable == "Doctor B is temporarily unavailable."
ConsultError == "Consultation error."

RECURSIVE TrimStart(_)
TrimStart(s) == IF s # <<>> /\ Head(s) = " " THEN TrimStart(Tail(s)) ELSE s

RECURSIVE TrimEnd(_)
TrimEnd(s) ==
  IF s # <<>> /\ s[Len(s)] = " " THEN TrimEnd(SubSeq(s, 1, Len(s) - 1)) ELSE s

\* String.prototype.trim
Trim(s) == TrimEnd(TrimStart(s))

\* what the user may have typed when submitting
ChatInputs == {<<>>, <<" ">>, <<"a">>, <<" ", "b">>}

\* what a resolved sendChatMessage may return: response.text
ChatReplies == {"Rest.", ""}

\* the reply shown as it came
modelText_Raw(res) == res

\* res || "Doctor B is temporarily unavailable."
modelText(res) == IF res \in {"", Undef} THEN Unavailable ELSE res

consultRest == <<phase, now, meds, injections, conditions, stats, vault, diary, symptoms,
                 dietPlan, emergencyContacts, pharmacy, alarmsEnabled, activeAlarmItem,
                 remindedItems, flights, storage, queued, clockMs, ops, raisedRuns,
                 closedWith, sessionVars>>

\* Enter in the chat input, or the send button
HandleSendMessage ==
  /\ phase = "running"
  /\ \E input \in ChatInputs :
       /\ fx' = [raised |-> {}, keys |-> {},
                 call |-> [fn |-> "handleSendMessage", input |-> input]]
       /\ IF Trim(input) = <<>>
          THEN UNCHANGED <<chatVars, loading>>
          ELSE \E r \in {sendChatMessage(activeChatSession, chatSessions, input)} :
                 /\ Len(sendLog) < MaxMsgs
                 /\ chatHistory' = Append(chatHistory, [role |-> "user", text |-> input,
                                                        n |-> Len(sendLog) + 1])
                 /\ loading' = TRUE
                 /\ chatSessions' = r.sessions
                 /\ sendLog' = Append(sendLog, [msg |-> input, threw |-> r.threw,
                                                to |-> r.to, created |-> Len(chatSessions)])
                 /\ chatFlights' = chatFlights \cup {[n |-> Len(sendLog) + 1,
                                                      threw |-> r.threw]}
                 /\ UNCHANGED activeChatSession
  /\ UNCHANGED consultRest

\* the awaited sendChatMessage resolved: the try branch, then finally
ChatReply ==
  /\ phase = "running"
  /\ \E f \in chatFlights, res \in ChatReplies :
       /\ ~f.threw
       /\ chatFlights' = chatFlights \ {f}
       /\ chatHistory' = Append(chatHistory, [role |-> "model", text |-> modelText(res),
                                              n |-> f.n])
       /\ fx' = [raised |-> {}, keys |-> {},
                 call |-> [fn |-> "ChatReply", res |-> res, n |-> f.n]]
  /\ loading' = FALSE
  /\ UNCHANGED <<activeChatSession, chatSessions, sendLog, consultRest>>

\* the awaited sendChatMessage rejected: the catch branch, then finally
ChatReject ==
  /\ phase = "running"
  /\ \E f \in chatFlights :
       /\ chatFlights' = chatFlights \ {f}
       /\ chatHistory' = Append(chatHistory, [role |-> "model", text |-> ConsultError,
                                              n |-> f.n])
       /\ fx' = [raised |-> {}, keys |-> {}, call |-> [fn |-> "ChatReject", n |-> f.n]]
  /\ loading' = FALSE
  /\ UNCHANGED <<activeChatSession, chatSessions, sendLog, consultRest>>

\* medication 1 is taken
TakeFirst == MedButton /\ fx'.call.id = 1 /\ fx'.call.action = "take"

\* a diagnosis is added
Diagnose == AddCondition /\ conditions' = Append(conditions, "RA")

\* the consultation, with the regimen changing in between
NextConsult ==
  \/ HandleSendMessage
  \/ ChatReply
  \/ ChatReject
  \/ TakeFirst
  \/ Diagnose

SpecConsult == Init /\ [][NextConsult]_vars

\* every sendChatMessage call is answered: it resolves or rejects
ChatAnswered == ChatReply \/ ChatReject

\* the consultation with a take of medication 1 as the only change of regimen
NextConsultTake ==
  \/ HandleSendMessage
  \/ ChatReply
  \/ ChatReject
  \/ TakeFirst

SpecConsultFair == Init /\ [][NextConsultTake]_vars /\ WF_vars(ChatAnswered)

\* the places of the entries of a role that carry number n
Entries(role, n) ==
  {i \in DOMAIN chatHistory : chatHistory[i].role = role /\ chatHistory[i].n = n}

\* C16: a blank submission changes neither the history nor the loading flag
\* and sends nothing; a non-blank one appends its user entry; every reply or
\* failure appends the one model entry prescribed for it (the reply text,
\* 'Doctor B is temporarily unavailable.' for an empty reply, 'Consultation
\* error.' for a failure), after the user entry it answers and at most once;
\* and every user entry is eventually followed by its model entry.
C16_EveryMessageAnswered ==
  /\ [][/\ fx'.call.fn = "handleSendMessage" =>
             IF Trim(fx'.call.input) = <<>>
             THEN UNCHANGED <<chatHistory, loading, chatSessions, sendLog, chatFlights>>
             ELSE /\ Len(chatHistory') = Len(chatHistory) + 1
                  /\ SubSeq(chatHistory', 1, Len(chatHistory)) = chatHistory
                  /\ chatHistory'[Len(chatHistory')].role = "user"
                  /\ chatHistory'[Len(chatHistory')].text = fx'.call.input
        /\ fx'.call.fn \in {"ChatReply", "ChatReject"} =>
             /\ Len(chatHistory') = Len(chatHistory) + 1
             /\ SubSeq(chatHistory', 1, Len(chatHistory)) = chatHistory
             /\ chatHistory'[Len(chatHistory')].role = "model"
             /\ chatHistory'[Len(chatHistory')].n = fx'.call.n
             /\ chatHistory'[Len(chatHistory')].text =
                  (IF fx'.call.fn = "ChatReject" THEN ConsultError
                   ELSE IF fx'.call.res = "" THEN Unavailable
                   ELSE fx'.call.res)]_vars
  /\ [](\A n \in 1..MaxMsgs :
          /\ Cardinality(Entries("model", n)) <= 1
          /\ Cardinality(Entries("user", n)) <= 1
          /\ \A i \in Entries("model", n) : \E j \in Entries("user", n) : j < i)
  /\ \A n \in 1..MaxMsgs : (Entries("user", n) # {}) ~> (Entries("model", n) # {})

\* one message got an empty reply, another failed, and a whitespace-only
\* input was then submitted
C16_Witness ==
  /\ fx.call.fn = "handleSendMessage"
  /\ fx.call.input = <<" ">>
  /\ chatFlights = {}
  /\ ~loading
  /\ \E i, j \in DOMAIN chatHistory :
       /\ chatHistory[i].text = Unavailable
       /\ chatHistory[j].text = ConsultError

\* C17: user and model entries alternate, starting with a user entry, and
\* every model entry answers the user entry right before it.
C17_EntriesAlternate ==
  \A i \in DOMAIN chatHistory :
    IF i % 2 = 1 THEN chatHistory[i].role = "user"
    ELSE /\ chatHistory[i].role = "model"
         /\ chatHistory[i].n = chatHistory[i - 1].n

\* the user messages shown in the chat history, in order
ShownMessages ==
  MapSeq(LAMBDA e : e.text, SelectSeq(chatHistory, LAMBDA e : e.role = "user"))

\* C18: after a message is submitted, the conversation of the active chat
\* session holds every user message shown in the chat history.
C18_SessionHoldsHistory ==
  [][(fx'.call.fn = "handleSendMessage" /\ Trim(fx'.call.input) # <<>>)
       => /\ activeChatSession' # 0
          /\ chatSessions'[activeChatSession'] = ShownMessages']_vars

(***************************************************************************)
(* Playback of a live session: callbacks.onmessage.  Times and durations   *)
(* are whole seconds.  The handler's one await is of decodeAudioData, an   *)
(* async function without an await of its own: the handler resumes in a    *)
(* microtask, before any other event is delivered, so a message is         *)
(* processed in one step.                                                  *)
(***************************************************************************)
\* a server message: dur is the duration of the audio it carries, 0 for none
LiveMessages == [dur : {0, 1, 2}, interrupted : BOOLEAN]

\* the cursor left where it was
Schedule_NoMax(cursor, currentTime) == cursor

\* Math.max(nextStartTimeRef.current, outputAudioCtx.currentTime)
Schedule(cursor, currentTime) == IF cursor >= currentTime THEN cursor ELSE currentTime

\* the interrupted branch stopping the sources but keeping the cursor
Interrupted_KeepCursor(sources, cursor) == [sources |-> {}, cursor |-> cursor]

\* the interrupted branch: every source stopped and deleted, the cursor 0
Interrupted(sources, cursor) == [sources |-> {}, cursor |-> 0]

\* the audio branch: the source of chunk k starts at the cursor and is added
Scheduled(sources, cursor, currentTime, k, dur) ==
  [sources |-> sources \cup {k},
   start |-> Schedule(cursor, currentTime),
   cursor |-> Schedule(cursor, currentTime) + dur]

\* the messages processed so far: a message may carry audio, be flagged
\* interrupted, or both
MessagesSeen ==
  Len(chunkLog) + interrupts - Cardinality({i \in DOMAIN chunkLog : chunkLog[i].cut})

\* callbacks.onmessage of the session started last, while it is open
OnMessage ==
  /\ live # <<>>
  /\ live[Len(live)].conn = "open"
  /\ isLiveActive
  /\ MessagesSeen < MaxMessages
  /\ \E m \in LiveMessages :
       /\ m.dur > 0 \/ m.interrupted
       /\ \E a \in {IF m.dur > 0
                    THEN Scheduled(audioSourcesRef, nextStartTimeRef, outTime,
                                   Len(chunkLog) + 1, m.dur)
                    ELSE [sources |-> audioSourcesRef, start |-> 0,
                          cursor |-> nextStartTimeRef]} :
            /\ chunkLog' = IF m.dur > 0
                           THEN Append(chunkLog,
                                       [arrived |-> outTime, start |-> a.start,
                                        dur |-> m.dur, cursor |-> a.cursor,
                                        after |-> interrupts, cut |-> m.interrupted,
                                        session |-> Len(live)])
                           ELSE chunkLog
            /\ \E e \in {IF m.interrupted THEN Interrupted(a.sources, a.cursor)
                         ELSE [sources |-> a.sources, cursor |-> a.cursor]} :
                 /\ audioSourcesRef' = e.sources
                 /\ nextStartTimeRef' = e.cursor
            /\ interrupts' = IF m.interrupted THEN interrupts + 1 ELSE interrupts
  /\ UNCHANGED <<outTime, liveVars>>

\* the 'ended' event of a source that has played to its end
SourceEnded ==
  /\ \E k \in audioSourcesRef :
       /\ chunkLog[k].session = Len(live)
       /\ chunkLog[k].start + chunkLog[k].dur <= outTime
       /\ audioSourcesRef' = audioSourcesRef \ {k}
  /\ UNCHANGED <<nextStartTimeRef, outTime, chunkLog, interrupts, liveVars>>

\* a second of the output context's clock
OutputClock ==
  /\ live # <<>>
  /\ live[Len(live)].conn = "open"
  /\ outTime < MaxTime
  /\ outTime' = outTime + 1
  /\ UNCHANGED <<nextStartTimeRef, audioSourcesRef, chunkLog, interrupts, liveVars>>

audioRest == <<phase, now, meds, injections, conditions, stats, vault, diary, symptoms,
               dietPlan, emergencyContacts, pharmacy, alarmsEnabled, activeAlarmItem,
               remindedItems, loading, flights, storage, queued, clockMs, ops, fx,
               raisedRuns, closedWith, chatVars, codecVars, rxVars>>

\* one live session from its start on, and the audio it plays
NextAudio ==
  \/ /\ \/ StartLiveSession
        \/ MediaGranted
        \/ OnOpen
     /\ Len(live') = 1
     /\ UNCHANGED liveRest
  \/ /\ \/ OnMessage
        \/ SourceEnded
        \/ OutputClock
     /\ UNCHANGED audioRest

SpecAudio == Init /\ [][NextAudio]_vars

\* an interrupted message was processed between the scheduling of chunk i - 1
\* and that of chunk i
CutBefore(i) == chunkLog[i - 1].cut \/ chunkLog[i - 1].after # chunkLog[i].after

\* C19 as stated: every chunk starts no earlier than the output context's
\* time at its arrival and no earlier than the end of the chunk before it,
\* and the cursor after scheduling is its start plus its duration.
C19_ScheduledWithoutOverlap ==
  \A i \in DOMAIN chunkLog :
    /\ chunkLog[i].start >= chunkLog[i].arrived
    /\ i > 1 => chunkLog[i].start >= chunkLog[i - 1].start + chunkLog[i - 1].dur
    /\ chunkLog[i].cursor = chunkLog[i].start + chunkLog[i].dur

\* C19 amended: every chunk starts no earlier than the output context's time
\* at its arrival; no earlier than the end of the chunk before it unless an
\* interrupted message was processed in between, and then at the time of
\* its arrival; and the cursor after scheduling is its start plus its
\* duration.
C19_ScheduledAfterCursor ==
  \A i \in DOMAIN chunkLog :
    /\ chunkLog[i].start >= chunkLog[i].arrived
    /\ (i > 1 /\ ~CutBefore(i))
         => chunkLog[i].start >= chunkLog[i - 1].start + chunkLog[i - 1].dur
    /\ (i > 1 /\ CutBefore(i)) => chunkLog[i].start = chunkLog[i].arrived
    /\ chunkLog[i].cursor = chunkLog[i].start + chunkLog[i].dur

\* a chunk was queued behind the one before it, an interruption followed, and
\* the next chunk started at its arrival, before the end of the stopped one
C19_Witness ==
  /\ Len(chunkLog) = 3
  /\ chunkLog[2].start = chunkLog[1].start + chunkLog[1].dur
  /\ chunkLog[2].start > chunkLog[2].arrived
  /\ chunkLog[2].cut
  /\ chunkLog[3].start = chunkLog[3].arrived
  /\ chunkLog[3].start < chunkLog[2].start + chunkLog[2].dur

\* C20: the step that processes an interrupted message leaves no active audio
\* source and the playback cursor at 0.
C20_InterruptedClearsPlayback ==
  [][interrupts' # interrupts => audioSourcesRef' = {} /\ nextStartTimeRef' = 0]_vars

\* an interrupted message that carried audio itself was processed while the
\* chunk before it was still playing
C20_Witness ==
  /\ interrupts = 1
  /\ Len(chunkLog) = 2
  /\ chunkLog[2].cut
  /\ chunkLog[1].start + chunkLog[1].dur > outTime
  /\ audioSourcesRef = {}
  /\ nextStartTimeRef = 0

(***************************************************************************)
(* Live sessions one after the other: a session is started, plays what it  *)
(* receives, is stopped by the user, and the next one is started.          *)
(***************************************************************************)
voiceRest == <<phase, now, meds, injections, conditions, stats, vault, diary, symptoms,
               dietPlan, emergencyContacts, pharmacy, alarmsEnabled, activeAlarmItem,
               remindedItems, flights, storage, queued, clockMs, ops, fx, raisedRuns,
               closedWith, chatVars, codecVars, rxVars>>

NextVoice ==
  \/ /\ \/ StartLiveSession
        \/ MediaGranted
        \/ OnOpen
        \/ StopLiveSession
     /\ Len(live') <= MaxVoice
     /\ UNCHANGED <<nextStartTimeRef, audioSourcesRef, chunkLog, interrupts, voiceRest>>
  \/ /\ \/ OnMessage
        \/ SourceEnded
        \/ OutputClock
     /\ UNCHANGED <<loading, voiceRest>>

SpecVoice == Init /\ [][NextVoice]_vars

\* chunk i is the first one its session received
FirstOfSession(i) == \A j \in 1..(i - 1) : chunkLog[j].session # chunkLog[i].session

\* C21: the first audio chunk of every live session starts at the output
\* context's current time at its arrival.
C21_FirstChunkAtContextTime ==
  \A i \in DOMAIN chunkLog : FirstOfSession(i) => chunkLog[i].start = chunkLog[i].arrived

(***************************************************************************)
(* Further claims about the App component.                                 *)
(***************************************************************************)
\* C25: a resolved pill identification appends one pending medication (count
\* 30, time 08:00, every day) to the medications held when it resolves, puts
\* one item in front of the vault and adds 150 XP; a rejected request leaves
\* meds, vault and stats as they are.
C25_IdentifyAppendsOne ==
  [][/\ fx'.call.fn = "IdentifyDone" =>
          /\ Len(meds') = Len(meds) + 1
          /\ SubSeq(meds', 1, Len(meds)) = meds
          /\ meds'[Len(meds')].status = "pending"
          /\ meds'[Len(meds')].count = 30
          /\ meds'[Len(meds')].time = "08:00"
          /\ meds'[Len(meds')].schedule = AllDays
          /\ Len(vault') = Len(vault) + 1
          /\ SubSeq(vault', 2, Len(vault')) = vault
          /\ stats'.xp = stats.xp + 150
     /\ fx'.call.fn = "RequestFailed" => UNCHANGED <<meds, vault, stats>>]_vars

\* C26: while the component mounts after a close, the stored value is the
\* profile that was saved before the close.
C26_StoredProfileKept ==
  (phase = "mounting" /\ closedWith # NoItem) => storage = Stringify(closedWith)

(***************************************************************************)
(* XP awards.  saveSymptomLog is defined in the component; its award is    *)
(* followed like that of the handlers the screens call.                    *)
(***************************************************************************)
\* saveSymptomLog with a symptom name filled in
SaveSymptomLog ==
  /\ UserOp
  /\ \E t \in DateNow :
       /\ clockMs' = t
       /\ symptoms' = <<[id |-> t]>> \o symptoms
  /\ stats' = UpdateXP(stats, 40)
  /\ UNCHANGED <<now, meds, injections, alarmsEnabled, conditions, vault, diary, dietPlan,
                 emergencyContacts, pharmacy, loading, flights, queued, closedWith>>
  /\ Settle([fn |-> "SaveSymptomLog"], remindedItems, activeAlarmItem, raisedRuns)
  /\ UNCHANGED <<phase, otherVars>>

\* the stats after n prescription scans
RECURSIVE StatsAfterScans(_)
StatsAfterScans(n) == IF n = 0 THEN DefaultStats ELSE UpdateXP(StatsAfterScans(n - 1), 250)

\* the component after n prescription scans that found no item: n vault
\* items, n awards of 250 XP, the profile saved
InitScanned ==
  \E n \in 0..MaxPriorScans :
    /\ phase = "running"
    /\ now = [day |-> 0, slot |-> 1]
    /\ meds = Defaults.meds
    /\ injections = Defaults.injections
    /\ conditions = Defaults.conditions
    /\ stats = StatsAfterScans(n)
    /\ vault = [i \in 1..n |-> [id |-> EpochMs - i]]
    /\ diary = Defaults.diary
    /\ symptoms = Defaults.symptoms
    /\ dietPlan = Defaults.dietPlan
    /\ emergencyContacts = Defaults.emergencyContacts
    /\ pharmacy = Defaults.pharmacy
    /\ alarmsEnabled = Defaults.alarmsEnabled
    /\ activeAlarmItem = Null
    /\ remindedItems = {}
    /\ loading = FALSE
    /\ flights = {}
    /\ storage = Stringify(Persisted)
    /\ queued = NoItem
    /\ clockMs = EpochMs
    /\ ops = 0
    /\ fx = NoFx
    /\ raisedRuns = NoRuns
    /\ closedWith = NoItem

InitStats == InitScanned /\ MountedChat /\ IdleLive /\ IdleCodec /\ IdleRx

\* every handler that awards XP, skip, closing and mounting
NextStats ==
  \/ MedButton
  \/ InjectionButton
  \/ RegisterInjection
  \/ SaveSymptomLog
  \/ PickPillImage
  \/ IdentifyDone
  \/ PickScript
  \/ ScanDone
  \/ RequestFailed
  \/ Close
  \/ MountEffects
  \/ MountRerender

SpecStats == InitStats /\ [][NextStats]_vars

\* the XP a handler call awards
Award(call) ==
  CASE call.fn = "handleMedAction" /\ call.action = "take" -> 50
    [] call.fn = "handleInjectionAction" /\ call.action = "take" -> 100
    [] call.fn = "SaveSymptomLog" -> 40
    [] call.fn = "RegisterInjection" -> 100
    [] call.fn = "IdentifyDone" -> 150
    [] call.fn = "ScanDone" -> 250
    [] OTHER -> 0

\* C27: the level is floor(xp / 1000) + 1 and wellness is at most 100 in
\* every state; every handler adds its award (nothing for a skip) to xp, and
\* xp never decreases while a component lives, the load of the stored
\* profile included.
C27_StatsConsistent ==
  /\ [](stats.level = (stats.xp \div 1000) + 1 /\ stats.wellness <= 100)
  /\ [][/\ (phase = "running" /\ phase' = "running")
             => stats'.xp = stats.xp + Award(fx'.call)
        /\ phase # "closed" => stats'.xp >= stats.xp]_vars

\* a take of a medication has brought xp from 2950 to 3000 and the level from
\* 3 to 4
C27_Witness ==
  /\ fx.call.fn = "handleMedAction"
  /\ fx.call.action = "take"
  /\ stats.xp = 3000
  /\ stats.level = 4
  /\ stats.wellness = 94

\* the items of a list carry pairwise distinct ids
DistinctIds(items) ==
  \A i, j \in DOMAIN items : i # j => items[i].id # items[j].id

\* C28: the ids of the medications are pairwise distinct and the ids of the
\* injections are pairwise distinct, and a take or skip by id changes exactly
\* one item.
C28_IdsDistinct ==
  /\ [](DistinctIds(meds) /\ DistinctIds(injections))
  /\ [][fx'.call.fn \in {"handleMedAction", "handleInjectionAction"} =>
          Cardinality({i \in DOMAIN meds : meds'[i] # meds[i]})
            + Cardinality({i \in DOMAIN injections : injections'[i] # injections[i]}) = 1]_vars

(***************************************************************************)
(* Takes after a first take: the behaviours start in the state the        *)
(* component is in once the user has taken medication 1.                   *)
(***************************************************************************)
InitTaken ==
  /\ phase = "running"
  /\ now = [day |-> 0, slot |-> 1]
  /\ meds = MedAction(Defaults.meds, 1, "take")
  /\ injections = Defaults.injections
  /\ conditions = Defaults.conditions
  /\ stats = UpdateXP(DefaultStats, 50)
  /\ vault = Defaults.vault
  /\ diary = Defaults.diary
  /\ symptoms = Defaults.symptoms
  /\ dietPlan = Defaults.dietPlan
  /\ emergencyContacts = Defaults.emergencyContacts
  /\ pharmacy = Defaults.pharmacy
  /\ alarmsEnabled = Defaults.alarmsEnabled
  /\ activeAlarmItem = Null
  /\ remindedItems = {}
  /\ loading = FALSE
  /\ flights = {}
  /\ storage = Stringify(Persisted)
  /\ queued = NoItem
  /\ clockMs = EpochMs
  /\ ops = 0
  /\ fx = NoFx
  /\ raisedRuns = NoRuns
  /\ closedWith = NoItem

\* the chat effect has run at mount and again after the take
RestartedChat ==
  /\ activeChatSession = 2
  /\ chatSessions = << <<>>, <<>> >>
  /\ sendLog = <<>>
  /\ chatHistory = <<>>
  /\ chatFlights = {}

InitTake == InitTaken /\ RestartedChat /\ IdleLive /\ IdleCodec /\ IdleRx

\* takes and skips from the lists and the alarm overlay, ticks, prescription
\* scans
NextTake ==
  \/ Tick
  \/ MedButton
  \/ InjectionButton
  \/ Acknowledge
  \/ PickScript
  \/ ScanDone
  \/ RequestFailed

SpecTake == InitTake /\ [][NextTake]_vars

\* C29: every item a take is applied to is pending, and no medication's
\* count is negative.
C29_TakeOnlyPending ==
  /\ [](\A i \in DOMAIN meds : meds[i].count >= 0)
  /\ [][/\ (fx'.call.fn = "handleMedAction" /\ fx'.call.action = "take")
             => \A i \in DOMAIN meds :
                  meds[i].id = fx'.call.id => meds[i].status = "pending"
        /\ (fx'.call.fn = "handleInjectionAction" /\ fx'.call.action = "take")
             => \A i \in DOMAIN injections :
                  injections[i].id = fx'.call.id => injections[i].status = "pending"]_vars

=============================================================================
